---- MODULE Spec2Model ----
(***************************************************************************)
(* Model of the mailbox polling coordinator of src/App.tsx (the App        *)
(* component's state, handlers and effects) over the three HTTP calls of   *)
(* src/services/mailService.ts.                                            *)
(*                                                                         *)
(* JavaScript runs the component single-threaded: one action is one        *)
(* macrotask (a click, a timer tick, a settled network promise, the        *)
(* unmount) together with the render and the effects it causes.            *)
(***************************************************************************)
EXTENDS Bags, FiniteSets, Integers, Sequences, TLC

(* ---------------------------- bounds ----------------------------------- *)
\* most HTTP requests awaiting their response at a time, of all three kinds
MaxPending == 3

(* ------------------------- JavaScript values --------------------------- *)
\* a string is the sequence of its characters
JsNull == [t |-> "null", s |-> <<>>]
JsUndefined == [t |-> "undefined", s |-> <<>>]
Str(chars) == [t |-> "string", s |-> chars]

\* what `if (v)` / `!v` test: null, undefined and "" are falsy
Truthy(v) == v.t = "string" /\ v.s # <<>>

\* String.prototype.split('@'): the pieces between the separators
RECURSIVE SplitRec(_, _, _)
SplitRec(chars, cur, acc) ==
    IF chars = <<>> THEN Append(acc, Str(cur))
    ELSE IF Head(chars) = "@" THEN SplitRec(Tail(chars), <<>>, Append(acc, Str(cur)))
    ELSE SplitRec(Tail(chars), Append(cur, Head(chars)), acc)

Split(v) == SplitRec(v.s, <<>>, <<>>)

\* const [login, domain] = emailAddress.split('@'): a missing piece is undefined
LoginDomain(v) ==
    LET parts == Split(v)
    IN [login |-> parts[1],
        domain |-> IF Len(parts) >= 2 THEN parts[2] ELSE JsUndefined]

(* ------------------------- the external service ------------------------ *)
\* the addresses the service hands out, and a payload that is no address
Addr1 == Str(<<"a", "@", "m">>)
Addr2 == Str(<<"b", "@", "m">>)
BadAddr == Str(<<"c">>)

\* the ids of the mails the service may hold for a mailbox (ids are
\* server-assigned and unique per mailbox): mail arrives at a@m only, the
\* other mailboxes stay empty
MailboxIds(login, domain) ==
    IF login = Str(<<"a">>) /\ domain = Str(<<"m">>) THEN {1, 2} ELSE {}

AllIds == {1, 2}

Email(n) == [id |-> n]
EmailBody(n) == [id |-> n]

\* all sequences without repetition over a set
RECURSIVE DistinctSeqs(_)
DistinctSeqs(S) ==
    {<<>>} \cup UNION {{<<x>> \o q : q \in DistinctSeqs(S \ {x})} : x \in S}

\* an HTTP exchange: status 0 stands for a rejected fetch (network error),
\* parses says whether response.json() succeeds, data is the parsed JSON
Response(status, parses, data) == [status |-> status, parses |-> parses, data |-> data]
ResponseOk(resp) == resp.status >= 200 /\ resp.status <= 299

GenResponses ==
    {Response(200, TRUE, <<a>>) : a \in {Addr1, Addr2, BadAddr}}
    \cup {Response(200, TRUE, <<>>), Response(200, FALSE, <<>>),
          Response(500, TRUE, <<>>), Response(0, FALSE, <<>>)}

InboxResponses(req) ==
    {Response(200, TRUE, [i \in DOMAIN q |-> Email(q[i])]) :
        q \in DistinctSeqs(MailboxIds(req.login, req.domain))}
    \cup {Response(200, FALSE, <<>>), Response(404, TRUE, <<>>),
          Response(500, TRUE, <<>>), Response(0, FALSE, <<>>)}

ReadResponses(req) ==
    {Response(200, TRUE, EmailBody(req.id)), Response(200, FALSE, EmailBody(req.id)),
     Response(500, TRUE, EmailBody(req.id)), Response(0, FALSE, EmailBody(req.id))}

(* ------------------------- mailService.ts ------------------------------ *)
\* the outcome of an async function: a returned value or a thrown error
Returned(v) == [ok |-> TRUE, value |-> v]
Thrown(v) == [ok |-> FALSE, value |-> v]

generateRandomEmail(resp) ==
    IF resp.status = 0 THEN Thrown(JsUndefined)
    ELSE IF ~ResponseOk(resp) THEN Thrown(JsUndefined)
    ELSE IF ~resp.parses THEN Thrown(JsUndefined)
    ELSE Returned(IF Len(resp.data) >= 1 THEN resp.data[1] ELSE JsUndefined)

getMessagesThrowOn404(resp) ==
    IF resp.status = 0 THEN Thrown(<<>>)
    ELSE IF ~ResponseOk(resp) THEN Thrown(<<>>)
    ELSE IF ~resp.parses THEN Thrown(<<>>)
    ELSE Returned(resp.data)

getMessagesAllEmpty(resp) ==
    IF resp.status = 0 THEN Thrown(<<>>)
    ELSE IF ~ResponseOk(resp) THEN Returned(<<>>)
    ELSE IF ~resp.parses THEN Thrown(<<>>)
    ELSE Returned(resp.data)

getMessages(resp) ==
    IF resp.status = 0 THEN Thrown(<<>>)
    ELSE IF ~ResponseOk(resp)
         THEN IF resp.status = 404 THEN Returned(<<>>) ELSE Thrown(<<>>)
    ELSE IF ~resp.parses THEN Thrown(<<>>)
    ELSE Returned(resp.data)

readMessage(resp) ==
    IF resp.status = 0 THEN Thrown(resp.data)
    ELSE IF ~ResponseOk(resp) THEN Thrown(resp.data)
    ELSE IF ~resp.parses THEN Thrown(resp.data)
    ELSE Returned(resp.data)

(* ------------------------- App.tsx: helpers ---------------------------- *)
NoError == "null"
GenerateErrorText == "Could not generate a new email. Please try again."
ReadErrorText == "Could not load the email content."

\* the comparator handed to Array.prototype.sort
compareFnAscending(a, b) == a.id - b.id

compareFn(a, b) == b.id - a.id

\* Array.prototype.sort is a stable sort by the comparator: insertion sort
RECURSIVE InsertSorted(_, _)
InsertSorted(e, sorted) ==
    IF sorted = <<>> THEN <<e>>
    ELSE IF compareFn(Head(sorted), e) <= 0
         THEN <<Head(sorted)>> \o InsertSorted(e, Tail(sorted))
         ELSE <<e>> \o sorted

RECURSIVE SortMessages(_)
SortMessages(list) ==
    IF list = <<>> THEN <<>>
    ELSE InsertSorted(list[Len(list)], SortMessages(SubSeq(list, 1, Len(list) - 1)))

\* a bag with one more, one less copy of a request
AddRequest(bag, req) == bag (+) SetToBag({req})
RemoveRequest(bag, req) == bag (-) SetToBag({req})

\* window.setInterval returns a handle no live timer has
NewTimerId(ts) ==
    CHOOSE i \in 1..(Cardinality(ts) + 1) :
        (\A t \in ts : t.id # i) /\ (\A j \in 1..(i - 1) : \E t \in ts : t.id = j)

\* clearPolling: clearInterval(intervalRef.current) when the ref is set;
\* the ref is null (0) afterwards in either case
clearPollingLeak(ts, ref) == ts

clearPolling(ts, ref) == IF ref # 0 THEN {t \in ts : t.id # ref} ELSE ts

\* the dependency list [setupPolling] of the polling effect changes exactly
\* when emailAddress does (setupPolling and fetchMessages are useCallbacks
\* over emailAddress)
DepsNeverChange(oldAddr, newAddr) == FALSE

DepsChanged(oldAddr, newAddr) == oldAddr # newAddr

VARIABLES
    mounted,           \* the component is mounted
    emailAddress,      \* useState<string | null>
    messages,          \* useState<Email[]>
    selectedMessage,   \* useState<EmailBody | null>
    isLoadingEmail,
    isLoadingInbox,
    isLoadingMessage,
    error,             \* useState<string | null>
    intervalRef,       \* intervalRef.current, 0 for null
    timers,            \* the window's live intervals: handle and the
                       \* emailAddress its fetchMessages closure captured
    genRequests,       \* number of generateRandomEmail calls in flight
    inboxRequests,     \* bag of getMessages calls in flight
    readRequests,      \* bag of readMessage calls in flight
    lastViewId         \* argument of the latest handleViewMessage call that
                       \* issued a request; 0 before the first and once the
                       \* user has closed the message

vars == <<mounted, emailAddress, messages, selectedMessage, isLoadingEmail,
          isLoadingInbox, isLoadingMessage, error, intervalRef, timers,
          genRequests, inboxRequests, readRequests, lastViewId>>

\* the HTTP requests in flight
Pending == genRequests + BagCardinality(inboxRequests) + BagCardinality(readRequests)

coordVars == <<emailAddress, messages, selectedMessage, isLoadingEmail,
               isLoadingInbox, isLoadingMessage, error, intervalRef, timers>>

\* the polling effect without the initial fetchMessages() of setupPolling
PollingEffectNoInitialFetch(oldAddr, newAddr, ts, ref, inbox, loading) ==
    IF ~DepsChanged(oldAddr, newAddr)
    THEN [timers |-> ts, intervalRef |-> ref, inboxRequests |-> inbox,
          isLoadingInbox |-> loading]
    ELSE LET ts1 == clearPolling(ts, ref)
             ts2 == clearPolling(ts1, 0)
         IN IF Truthy(newAddr)
            THEN [timers |-> ts2 \cup {[id |-> NewTimerId(ts2), addr |-> newAddr]},
                  intervalRef |-> NewTimerId(ts2),
                  inboxRequests |-> inbox,
                  isLoadingInbox |-> loading]
            ELSE [timers |-> ts2, intervalRef |-> 0, inboxRequests |-> inbox,
                  isLoadingInbox |-> loading]

\* The polling effect after a render in which emailAddress went from oldAddr
\* to newAddr, given the timers, ref, requests and flag the handler left:
\* cleanup (clearPolling), then setupPolling (clearPolling; if an address is
\* set, fetchMessages() and setInterval(fetchMessages, 7000)).
PollingEffect(oldAddr, newAddr, ts, ref, inbox, loading) ==
    IF ~DepsChanged(oldAddr, newAddr)
    THEN [timers |-> ts, intervalRef |-> ref, inboxRequests |-> inbox,
          isLoadingInbox |-> loading]
    ELSE LET ts1 == clearPolling(ts, ref)
             ts2 == clearPolling(ts1, 0)
         IN IF Truthy(newAddr)
            THEN [timers |-> ts2 \cup {[id |-> NewTimerId(ts2), addr |-> newAddr]},
                  intervalRef |-> NewTimerId(ts2),
                  inboxRequests |-> AddRequest(inbox, LoginDomain(newAddr)),
                  isLoadingInbox |-> TRUE]
            ELSE [timers |-> ts2, intervalRef |-> 0, inboxRequests |-> inbox,
                  isLoadingInbox |-> loading]

(* ------------------------- initial state ------------------------------- *)
\* after the first render and its effects: the mount effect has called
\* handleGenerateNewEmail, the polling effect found no address
Init ==
    /\ mounted = TRUE
    /\ emailAddress = JsNull
    /\ messages = <<>>
    /\ selectedMessage = JsNull
    /\ isLoadingEmail = TRUE
    /\ isLoadingInbox = FALSE
    /\ isLoadingMessage = FALSE
    /\ error = NoError
    /\ intervalRef = 0
    /\ timers = {}
    /\ genRequests = 1
    /\ inboxRequests = EmptyBag
    /\ readRequests = EmptyBag
    /\ lastViewId = 0

(* ------------------------- actions ------------------------------------- *)
\* the "New" button: handleGenerateNewEmail up to its await
HandleGenerateNewEmail ==
    /\ mounted
    /\ Pending < MaxPending
    /\ LET ts0 == clearPolling(timers, intervalRef)
           eff == PollingEffect(emailAddress, JsNull, ts0, 0, inboxRequests, isLoadingInbox)
       IN /\ timers' = eff.timers
          /\ intervalRef' = eff.intervalRef
          /\ inboxRequests' = eff.inboxRequests
          /\ isLoadingInbox' = eff.isLoadingInbox
    /\ isLoadingEmail' = TRUE
    /\ messages' = <<>>
    /\ emailAddress' = JsNull
    /\ error' = NoError
    /\ genRequests' = genRequests + 1
    /\ UNCHANGED <<mounted, selectedMessage, isLoadingMessage, readRequests, lastViewId>>

\* a generateRandomEmail call settles: handleGenerateNewEmail after its await
GenerateSettles(resp) ==
    /\ genRequests > 0
    /\ genRequests' = genRequests - 1
    /\ IF ~mounted
       THEN UNCHANGED <<coordVars, inboxRequests>>
       ELSE LET res == generateRandomEmail(resp)
                newAddr == IF res.ok THEN res.value ELSE emailAddress
                eff == PollingEffect(emailAddress, newAddr, timers, intervalRef,
                                     inboxRequests, isLoadingInbox)
            IN /\ emailAddress' = newAddr
               /\ error' = IF res.ok THEN error ELSE GenerateErrorText
               /\ isLoadingEmail' = FALSE
               /\ timers' = eff.timers
               /\ intervalRef' = eff.intervalRef
               /\ inboxRequests' = eff.inboxRequests
               /\ isLoadingInbox' = eff.isLoadingInbox
               /\ UNCHANGED <<messages, selectedMessage, isLoadingMessage>>
    /\ UNCHANGED <<mounted, readRequests, lastViewId>>

\* fetchMessages up to its await, for the emailAddress its closure captured
FetchMessages(addr) ==
    IF ~Truthy(addr)
    THEN UNCHANGED vars
    ELSE /\ Pending < MaxPending
         /\ isLoadingInbox' = TRUE
         /\ inboxRequests' = AddRequest(inboxRequests, LoginDomain(addr))
         /\ UNCHANGED <<mounted, emailAddress, messages, selectedMessage, isLoadingEmail,
                        isLoadingMessage, error, intervalRef, timers, genRequests,
                        readRequests, lastViewId>>

\* the "Refresh" button calls the fetchMessages of the current render
RefreshInbox ==
    /\ mounted
    /\ FetchMessages(emailAddress)

\* a live interval fires the fetchMessages it was created with
TimerTick ==
    \E t \in timers : FetchMessages(t.addr)

\* a getMessages call settles: fetchMessages after its await
InboxSettlesFlagInTry(req, resp) ==
    /\ BagIn(req, inboxRequests)
    /\ inboxRequests' = RemoveRequest(inboxRequests, req)
    /\ IF ~mounted
       THEN UNCHANGED <<messages, isLoadingInbox>>
       ELSE LET res == getMessages(resp)
            IN /\ messages' = IF res.ok THEN SortMessages(res.value) ELSE messages
               /\ isLoadingInbox' = IF res.ok THEN FALSE ELSE isLoadingInbox
    /\ UNCHANGED <<mounted, emailAddress, selectedMessage, isLoadingEmail,
                   isLoadingMessage, error, intervalRef, timers, genRequests,
                   readRequests, lastViewId>>

InboxSettles(req, resp) ==
    /\ BagIn(req, inboxRequests)
    /\ inboxRequests' = RemoveRequest(inboxRequests, req)
    /\ IF ~mounted
       THEN UNCHANGED <<messages, isLoadingInbox>>
       ELSE LET res == getMessages(resp)
            IN /\ messages' = IF res.ok THEN SortMessages(res.value) ELSE messages
               /\ isLoadingInbox' = FALSE
    /\ UNCHANGED <<mounted, emailAddress, selectedMessage, isLoadingEmail,
                   isLoadingMessage, error, intervalRef, timers, genRequests,
                   readRequests, lastViewId>>

\* a click on the list entry of message id: handleViewMessage up to its await
HandleViewMessage(id) ==
    /\ mounted
    /\ \E i \in DOMAIN messages : messages[i].id = id
    /\ IF ~Truthy(emailAddress)
       THEN UNCHANGED vars
       ELSE /\ Pending < MaxPending
            /\ isLoadingMessage' = TRUE
            /\ selectedMessage' = JsNull
            /\ readRequests' = AddRequest(readRequests,
                                  [login |-> LoginDomain(emailAddress).login,
                                   domain |-> LoginDomain(emailAddress).domain,
                                   id |-> id])
            /\ lastViewId' = id
            /\ UNCHANGED <<mounted, emailAddress, messages, isLoadingEmail, isLoadingInbox,
                           error, intervalRef, timers, genRequests, inboxRequests>>

\* a readMessage call settles: handleViewMessage after its await
ReadSettles(req, resp) ==
    /\ BagIn(req, readRequests)
    /\ readRequests' = RemoveRequest(readRequests, req)
    /\ IF ~mounted
       THEN UNCHANGED <<selectedMessage, error, isLoadingMessage>>
       ELSE LET res == readMessage(resp)
            IN /\ selectedMessage' = IF res.ok THEN res.value ELSE selectedMessage
               /\ error' = IF res.ok THEN error ELSE ReadErrorText
               /\ isLoadingMessage' = FALSE
    /\ UNCHANGED <<mounted, emailAddress, messages, isLoadingEmail, isLoadingInbox,
                   intervalRef, timers, genRequests, inboxRequests, lastViewId>>

\* the modal's backdrop or close button: setSelectedMessage(null)
DeselectMessageStopsLoading ==
    /\ mounted
    /\ selectedMessage # JsNull \/ isLoadingMessage
    /\ selectedMessage' = JsNull
    /\ isLoadingMessage' = FALSE
    /\ lastViewId' = 0
    /\ UNCHANGED <<mounted, emailAddress, messages, isLoadingEmail, isLoadingInbox,
                   error, intervalRef, timers, genRequests, inboxRequests, readRequests>>

DeselectMessage ==
    /\ mounted
    /\ selectedMessage # JsNull \/ isLoadingMessage
    /\ selectedMessage' = JsNull
    /\ lastViewId' = 0
    /\ UNCHANGED <<mounted, emailAddress, messages, isLoadingEmail, isLoadingInbox,
                   isLoadingMessage, error, intervalRef, timers, genRequests,
                   inboxRequests, readRequests>>

\* the component unmounts: the polling effect's cleanup runs
UnmountNoCleanup ==
    /\ mounted
    /\ mounted' = FALSE
    /\ UNCHANGED <<emailAddress, messages, selectedMessage, isLoadingEmail, isLoadingInbox,
                   isLoadingMessage, error, intervalRef, timers, genRequests,
                   inboxRequests, readRequests, lastViewId>>

Unmount ==
    /\ mounted
    /\ mounted' = FALSE
    /\ timers' = clearPolling(timers, intervalRef)
    /\ intervalRef' = 0
    /\ UNCHANGED <<emailAddress, messages, selectedMessage, isLoadingEmail, isLoadingInbox,
                   isLoadingMessage, error, genRequests, inboxRequests, readRequests,
                   lastViewId>>

GenerateSettlesAny == \E resp \in GenResponses : GenerateSettles(resp)

InboxSettlesAny ==
    \E req \in BagToSet(inboxRequests) : \E resp \in InboxResponses(req) : InboxSettles(req, resp)

HandleViewMessageAny == \E id \in AllIds : HandleViewMessage(id)

ReadSettlesAny ==
    \E req \in BagToSet(readRequests) : \E resp \in ReadResponses(req) : ReadSettles(req, resp)

Next ==
    \/ HandleGenerateNewEmail
    \/ GenerateSettlesAny
    \/ RefreshInbox
    \/ TimerTick
    \/ InboxSettlesAny
    \/ HandleViewMessageAny
    \/ ReadSettlesAny
    \/ DeselectMessage
    \/ Unmount

Spec == Init /\ [][Next]_vars

\* every request in flight is answered or fails in the end
FairResponses ==
    /\ Spec
    /\ WF_vars(GenerateSettlesAny)
    /\ WF_vars(InboxSettlesAny)
    /\ WF_vars(ReadSettlesAny)

\* and a live interval keeps firing: the browser runs its callback every
\* 7 s whatever else is pending, so it fires whenever it is able to again
\* and again
FairPolling == FairResponses /\ SF_vars(TimerTick)

(* ------------------------- claims -------------------------------------- *)
\* the mailbox a fetch for the current emailAddress addresses
ActiveMailbox == LoginDomain(emailAddress)

\* C1: a fetch that settles after the address changed is discarded, so in
\* every state of the mounted component `messages` holds only mails of the
\* mailbox of the currently active address (and none while no address is
\* active).
StaleInboxResponseDiscarded ==
    mounted =>
        \A i \in DOMAIN messages :
            /\ Truthy(emailAddress)
            /\ messages[i].id \in MailboxIds(ActiveMailbox.login, ActiveMailbox.domain)

\* C2: once every body fetch has settled, none of them with a failure, an
\* opened body is the body of the message selected last: the result of an
\* older selection never survives a newer one.
SelectionSupersedes ==
    (/\ mounted
     /\ readRequests = EmptyBag
     /\ error = NoError
     /\ lastViewId # 0
     /\ selectedMessage # JsNull) => selectedMessage.id = lastViewId

\* C3: at most one inbox fetch for the active address is in flight.
AtMostOneRefreshInFlight ==
    (mounted /\ emailAddress \in {Addr1, Addr2})
        => CopiesIn(ActiveMailbox, inboxRequests) <= 1

\* C4: whenever a generation response settles, in whichever order, with a
\* generation still in flight or not, an address it delivers is the active
\* one with exactly one timer, which polls it; a failed response leaves the
\* address and the timer as they were.
RegenerateTwiceSettles ==
    [][\A resp \in GenResponses :
          (mounted /\ GenerateSettles(resp)) =>
              LET res == generateRandomEmail(resp)
              IN IF res.ok
                 THEN Truthy(res.value) =>
                        /\ emailAddress' = res.value
                        /\ intervalRef' # 0
                        /\ timers' = {[id |-> intervalRef', addr |-> emailAddress']}
                 ELSE /\ emailAddress' = emailAddress
                      /\ timers' = timers]_vars

\* C4 witness: both of two overlapping generations have settled (the error
\* of the failed one was not cleared, so no regenerate started after it),
\* one address is active and one timer polls it
TwoGenerationsSettled ==
    /\ mounted
    /\ genRequests = 0
    /\ error = GenerateErrorText
    /\ emailAddress \in {Addr1, Addr2}
    /\ timers = {[id |-> intervalRef, addr |-> emailAddress]}

\* C5: at most one timer is live, only while an address is active, and it
\* polls the active address; a change of the address leaves no timer of
\* before the change alive.
NoStaleTimer ==
    /\ [](/\ Cardinality(timers) <= 1
          /\ \A t \in timers :
                mounted /\ Truthy(emailAddress) /\ t.addr = emailAddress
                /\ t.id = intervalRef)
    /\ [][emailAddress' # emailAddress => timers \cap timers' = {}]_vars

\* C5 witness: the address changed from a@m (a fetch for it is still in
\* flight) to b@m and the one live timer polls b@m
TimerFollowsAddress ==
    /\ emailAddress = Addr2
    /\ BagIn(LoginDomain(Addr1), inboxRequests)
    /\ timers = {[id |-> intervalRef, addr |-> Addr2]}

\* a refresh request that fails: a network error or a status that is neither
\* a success nor 404
RefreshFails(resp) == resp.status = 0 \/ (~ResponseOk(resp) /\ resp.status # 404)

\* C6: a refresh whose request fails leaves messages, the error and the
\* polling timer as they were.
FailedRefreshSwallowed ==
    [][\A req \in BagToSet(inboxRequests) : \A resp \in InboxResponses(req) :
          (mounted /\ RefreshFails(resp) /\ InboxSettles(req, resp)) =>
              /\ messages' = messages
              /\ error' = error
              /\ timers' = timers
              /\ intervalRef' = intervalRef]_vars

\* C6 witness: a refresh is in flight while messages are shown and the
\* timer runs
RefreshInFlightOverMessages ==
    /\ mounted
    /\ messages # <<>>
    /\ timers # {}
    /\ BagIn(ActiveMailbox, inboxRequests)

\* C7: messages is strictly descending by id.
MessagesStrictlyDescending ==
    \A i \in 1..(Len(messages) - 1) : messages[i].id > messages[i + 1].id

\* C7 witness: a refresh stored a list of two messages
TwoMessagesListed == Len(messages) = 2

\* C8: when a generation, the only request in flight, makes an address
\* active, messages is empty and no body is selected.
NewAddressStartsClean ==
    [][(/\ mounted
        /\ genRequests = 1 /\ inboxRequests = EmptyBag /\ readRequests = EmptyBag
        /\ emailAddress = JsNull /\ messages = <<>>
        /\ emailAddress' \in {Addr1, Addr2}) =>
          (messages' = <<>> /\ selectedMessage' = JsNull)]_vars

\* C9: when generateAddress fails, the generation error is recorded and no
\* address is active.
FailedGenerationLeavesAddressless ==
    [][\A resp \in GenResponses :
          (/\ mounted
           /\ emailAddress \in {JsNull, Addr1, Addr2}
           /\ ~generateRandomEmail(resp).ok
           /\ GenerateSettles(resp)) =>
              (error' = GenerateErrorText /\ ~Truthy(emailAddress'))]_vars

\* C10: when the body fetch of a selection fails, the read error is recorded
\* and no body is selected.
FailedReadLeavesNoBody ==
    [][\A req \in BagToSet(readRequests) : \A resp \in ReadResponses(req) :
          (mounted /\ ~readMessage(resp).ok /\ ReadSettles(req, resp)) =>
              (error' = ReadErrorText /\ selectedMessage' = JsNull)]_vars

\* C11: getMessages turns a 404 response into the empty list and never
\* throws, so a refresh answered with 404 completes as a successful one:
\* messages becomes empty, the error stays as it was, the flag is lowered.
NotFoundIsEmptyInbox ==
    [][\A req \in BagToSet(inboxRequests) : \A resp \in InboxResponses(req) :
          (mounted /\ resp.status = 404 /\ InboxSettles(req, resp)) =>
              /\ getMessages(resp) = Returned(<<>>)
              /\ messages' = <<>>
              /\ error' = error
              /\ isLoadingInbox' = FALSE]_vars

\* C11 witness: messages of a@m are listed and a further refresh of a@m,
\* which the service may answer with 404, is in flight
RefreshOfListedInboxInFlight ==
    /\ mounted
    /\ emailAddress = Addr1
    /\ Len(messages) >= 1
    /\ BagIn(LoginDomain(Addr1), inboxRequests)

\* a string of the form non-empty-local@non-empty-domain
WellFormedAddress(v) ==
    /\ v.t = "string"
    /\ Len(Split(v)) = 2
    /\ Split(v)[1].s # <<>>
    /\ Split(v)[2].s # <<>>

\* C12: every value generateRandomEmail returns is a well-formed address (a
\* malformed payload makes it throw), so a settled generation leaves either
\* a well-formed active address or the generation error.
GeneratedAddressWellFormed ==
    [][\A resp \in GenResponses :
          (mounted /\ GenerateSettles(resp)) =>
              /\ generateRandomEmail(resp).ok => WellFormedAddress(generateRandomEmail(resp).value)
              /\ WellFormedAddress(emailAddress') \/ error' = GenerateErrorText]_vars

\* the state deselectMessage must leave alone
DeselectFrame ==
    <<mounted, emailAddress, messages, isLoadingEmail, isLoadingInbox, isLoadingMessage,
      error, intervalRef, timers, genRequests, inboxRequests, readRequests>>

\* C13: deselectMessage sets selectedMessage to null and changes nothing
\* else: address, messages, loading flags, error, timer, requests in flight.
DeselectOnlyClearsSelection ==
    [][DeselectMessage => (selectedMessage' = JsNull /\ UNCHANGED DeselectFrame)]_vars

\* C13 witness: the user has closed the message while a body fetch is
\* still in flight and the timer runs
ClosedWhileFetching ==
    /\ mounted
    /\ selectedMessage = JsNull
    /\ ~isLoadingMessage
    /\ lastViewId = 0
    /\ readRequests # EmptyBag
    /\ timers # {}

\* C14: the step that makes an address active issues a refresh for it at
\* once, and while that address stays active and the component mounted the
\* timer issues refreshes for it again and again.
PollingKeepsRefreshing ==
    /\ [][(mounted /\ emailAddress' # emailAddress /\ Truthy(emailAddress')) =>
            /\ CopiesIn(LoginDomain(emailAddress'), inboxRequests')
                  = CopiesIn(LoginDomain(emailAddress'), inboxRequests) + 1
            /\ isLoadingInbox']_vars
    /\ \A a \in {Addr1, Addr2} :
          <>[](mounted /\ emailAddress = a) =>
              []<><<TimerTick /\ CopiesIn(LoginDomain(a), inboxRequests')
                                    > CopiesIn(LoginDomain(a), inboxRequests)>>_vars

\* C14 witness: a@m has just become active: its first refresh is in
\* flight, nothing is listed yet and its timer runs
PollingStarted ==
    /\ mounted
    /\ emailAddress = Addr1
    /\ genRequests = 0
    /\ messages = <<>>
    /\ isLoadingInbox
    /\ inboxRequests = SetToBag({LoginDomain(Addr1)})
    /\ timers = {[id |-> intervalRef, addr |-> Addr1]}

\* C15: the start of a regenerate and the unmount leave no timer alive and
\* abort no request in flight; no timer lives once the component is
\* unmounted, so no tick issues a request then.
CancellationStopsTimer ==
    /\ [][(HandleGenerateNewEmail \/ Unmount) =>
            /\ timers' = {}
            /\ intervalRef' = 0
            /\ inboxRequests' = inboxRequests
            /\ readRequests' = readRequests
            /\ genRequests' >= genRequests]_vars
    /\ [](~mounted => timers = {})

\* C15 witness: the component was unmounted while a@m was polled and a
\* refresh was in flight: the timer is gone, the request still pending
TornDownWithRequestPending ==
    /\ ~mounted
    /\ emailAddress = Addr1
    /\ timers = {}
    /\ BagIn(LoginDomain(Addr1), inboxRequests)

\* C16: each loading flag is up while a request of its kind is in flight.
LoadingFlagsCoverRequests ==
    mounted =>
        /\ readRequests # EmptyBag => isLoadingMessage
        /\ inboxRequests # EmptyBag => isLoadingInbox
        /\ genRequests > 0 => isLoadingEmail

\* C17: once the user has closed the message, no body is selected until a
\* new selection is made.
ClosedStaysClosed ==
    (mounted /\ lastViewId = 0) => selectedMessage = JsNull

\* a command of the presentation layer, a timer tick or the teardown
Command ==
    \/ HandleGenerateNewEmail
    \/ RefreshInbox
    \/ TimerTick
    \/ HandleViewMessageAny
    \/ DeselectMessage
    \/ Unmount

\* nothing is in flight and no loading flag is up
Quiet ==
    /\ Pending = 0
    /\ ~isLoadingEmail /\ ~isLoadingInbox /\ ~isLoadingMessage

\* C18: a settling request lowers the flag of its kind whether it succeeds
\* or fails, no flag is up with no request of its kind in flight, and once
\* no command is issued any more the mounted component becomes quiet for
\* good.
EveryOperationSettles ==
    /\ [][mounted =>
            /\ genRequests' < genRequests => ~isLoadingEmail'
            /\ BagCardinality(inboxRequests') < BagCardinality(inboxRequests)
                  => ~isLoadingInbox'
            /\ BagCardinality(readRequests') < BagCardinality(readRequests)
                  => ~isLoadingMessage']_vars
    /\ [](mounted =>
            /\ genRequests = 0 => ~isLoadingEmail
            /\ inboxRequests = EmptyBag => ~isLoadingInbox
            /\ readRequests = EmptyBag => ~isLoadingMessage)
    /\ (<>[][~Command]_vars => <>[](~mounted \/ Quiet))

\* C18 witness: a generation and a body fetch have failed and the
\* component is quiet
QuietAfterFailure ==
    /\ mounted
    /\ Quiet
    /\ error = ReadErrorText
    /\ ~Truthy(emailAddress)

====
